---- MODULE Spec2Model ----
(***************************************************************************)
(* The chat server of server.js: the POST /api/chat handler with its rule  *)
(* chain, the Groq call with its fallback, the GET /api/history handler    *)
(* and the in-memory conversationHistory map.                              *)
(*                                                                         *)
(* A JavaScript string is a sequence of one-character strings, so that the *)
(* regular expressions, trim(), toLowerCase() and the template literals of *)
(* the handler are computed character by character.  A fixed reply literal *)
(* of the source is one element holding the literal's text (its emoji are  *)
(* left out: the module is ASCII).                                         *)
(***************************************************************************)
EXTENDS Integers, Sequences, FiniteSets, TLC

(***************************************************************************)
(* Characters and strings                                                  *)
(***************************************************************************)
Digits == <<"0", "1", "2", "3", "4", "5", "6", "7", "8", "9">>

UpperCase == <<"A", "B", "C", "D", "E", "F", "G", "H", "I", "J", "K", "L", "M",
               "N", "O", "P", "Q", "R", "S", "T", "U", "V", "W", "X", "Y", "Z">>

LowerCase == <<"a", "b", "c", "d", "e", "f", "g", "h", "i", "j", "k", "l", "m",
               "n", "o", "p", "q", "r", "s", "t", "u", "v", "w", "x", "y", "z">>

\* \d of a regular expression.
IsDigit(c) == \E i \in 1..10 : Digits[i] = c

\* \s of a regular expression, and the characters trim() strips.
IsSpace(c) == c \in {" ", "\t", "\n", "\r", "\f"}

\* The characters the dot of a regular expression does not match.
IsLineTerminator(c) == c \in {"\n", "\r"}

ToLowerChar(c) ==
    IF \E i \in 1..26 : UpperCase[i] = c
    THEN LowerCase[CHOOSE i \in 1..26 : UpperCase[i] = c]
    ELSE c

\* String.prototype.toLowerCase
ToLowerCase(s) == [i \in 1..Len(s) |-> ToLowerChar(s[i])]

\* String.prototype.trim
Trim(s) ==
    LET keep == {i \in 1..Len(s) : ~IsSpace(s[i])}
    IN  IF keep = {} THEN <<>>
        ELSE LET lo == CHOOSE i \in keep : \A j \in keep : i <= j
                 hi == CHOOSE i \in keep : \A j \in keep : j <= i
             IN  SubSeq(s, lo, hi)

\* The literal w occurs in s at position i.
MatchAt(s, i, w) ==
    /\ i >= 1
    /\ i + Len(w) - 1 <= Len(s)
    /\ \A k \in 1..Len(w) : s[i + k - 1] = w[k]

\* String.prototype.includes(w), and the regular expression /w/.
Includes(s, w) == \E i \in 1..(Len(s) + 1) : MatchAt(s, i, w)

\* s[from..to-1] holds no line terminator: what .* can span.
DotStarSpans(s, from, to) ==
    \A k \in from..(to - 1) : ~IsLineTerminator(s[k])

\* The regular expression /w1.*w2/.
MatchesThen(s, w1, w2) ==
    \E i \in 1..(Len(s) + 1), j \in 1..(Len(s) + 1) :
        /\ MatchAt(s, i, w1)
        /\ j >= i + Len(w1)
        /\ MatchAt(s, j, w2)
        /\ DotStarSpans(s, i + Len(w1), j)

\* The regular expression /w1.*w2.*w3/.
MatchesThen3(s, w1, w2, w3) ==
    \E i \in 1..(Len(s) + 1), j \in 1..(Len(s) + 1), k \in 1..(Len(s) + 1) :
        /\ MatchAt(s, i, w1)
        /\ j >= i + Len(w1)
        /\ MatchAt(s, j, w2)
        /\ k >= j + Len(w2)
        /\ MatchAt(s, k, w3)
        /\ DotStarSpans(s, i + Len(w1), k)

\* The first position at or after i that holds no whitespace (Len(s)+1 if none): \s*
SkipSpaces(s, i) ==
    LET stop == {k \in i..Len(s) : ~IsSpace(s[k])}
    IN  IF stop = {} THEN Len(s) + 1
        ELSE CHOOSE k \in stop : \A m \in stop : k <= m

\* The last position of the run of digits that starts at i: a greedy \d+
DigitRunEnd(s, i) ==
    LET stop == {k \in i..Len(s) : ~IsDigit(s[k])}
    IN  IF stop = {} THEN Len(s)
        ELSE (CHOOSE k \in stop : \A m \in stop : k <= m) - 1

(***************************************************************************)
(* Numbers                                                                 *)
(***************************************************************************)
DigitValue(c) == (CHOOSE i \in 1..10 : Digits[i] = c) - 1

\* parseInt of a string of decimal digits.
RECURSIVE ParseInt(_)
ParseInt(ds) ==
    IF ds = <<>> THEN 0
    ELSE 10 * ParseInt(SubSeq(ds, 1, Len(ds) - 1)) + DigitValue(ds[Len(ds)])

RECURSIVE NatToString(_)
NatToString(n) ==
    IF n < 10 THEN <<Digits[n + 1]>>
    ELSE NatToString(n \div 10) \o <<Digits[(n % 10) + 1]>>

\* Number.prototype.toString of an integer, as a template literal prints it.
IntToString(n) == IF n < 0 THEN <<"-">> \o NatToString(0 - n) ELSE NatToString(n)

\* The digits after the decimal point of r / b (r < b), when the expansion ends
\* within `left` digits; <<"...">> when it does not.
RECURSIVE FractionDigits(_, _, _)
FractionDigits(r, b, left) ==
    IF r = 0 THEN <<>>
    ELSE IF left = 0 THEN <<"...">>
    ELSE LET rest == FractionDigits((10 * r) % b, b, left - 1)
         IN  IF rest = <<"...">> THEN rest
             ELSE <<Digits[((10 * r) \div b) + 1]>> \o rest

\* The significant decimal digits a double prints in full.
DoubleDigits == 15

\* The text of the double a / b as a template literal prints it: NaN and Infinity
\* for a zero divisor, the integer when b divides a, the decimal expansion when it
\* ends within DoubleDigits digits.  A quotient whose expansion does not end there
\* prints the shortest decimal that reads back as the same double, which is kept as
\* the unevaluated quotient.
QuotientGuarded(a, b) ==
    IF b = 0 THEN <<"0">>
    ELSE NatToString(a \div b)

\* The text of a / b in a template literal: Infinity and NaN for a zero divisor,
\* else the shortest decimal of the double.
QuotientToString(a, b) ==
    IF b = 0 THEN (IF a = 0 THEN <<"N", "a", "N">>
                   ELSE <<"I", "n", "f", "i", "n", "i", "t", "y">>)
    ELSE IF a % b = 0 THEN NatToString(a \div b)
    ELSE LET frac == FractionDigits(a % b, b, DoubleDigits)
         IN  IF frac = <<"...">>
             THEN <<"double(">> \o NatToString(a) \o <<"/">> \o NatToString(b) \o <<")">>
             ELSE NatToString(a \div b) \o <<".">> \o frac

(***************************************************************************)
(* The rule chain of the chat handler                                      *)
(***************************************************************************)
\* /^(what\s+is\s+)?2\s*\+\s*2(\s*=\s*)?$/
MatchesTwoPlusTwo(s) ==
    LET q == SkipSpaces(s, 5)
        r == SkipSpaces(s, q + 2)
        prefix == /\ MatchAt(s, 1, <<"w", "h", "a", "t">>)
                  /\ q > 5
                  /\ MatchAt(s, q, <<"i", "s">>)
                  /\ r > q + 2
        p == IF prefix THEN r ELSE 1
        a == SkipSpaces(s, p + 1)
        b == SkipSpaces(s, a + 1)
        c == SkipSpaces(s, b + 1)
    IN  /\ MatchAt(s, p, <<"2">>)
        /\ MatchAt(s, a, <<"+">>)
        /\ MatchAt(s, b, <<"2">>)
        /\ \/ b = Len(s)
           \/ /\ MatchAt(s, c, <<"=">>)
              /\ SkipSpaces(s, c + 1) = Len(s) + 1

\* /what.*time|current time/
MatchesTime(s) ==
    \/ MatchesThen(s, <<"w", "h", "a", "t">>, <<"t", "i", "m", "e">>)
    \/ Includes(s, <<"c", "u", "r", "r", "e", "n", "t", " ", "t", "i", "m", "e">>)

\* /what.*date|today.*date|current date/
MatchesDate(s) ==
    \/ MatchesThen(s, <<"w", "h", "a", "t">>, <<"d", "a", "t", "e">>)
    \/ MatchesThen(s, <<"t", "o", "d", "a", "y">>, <<"d", "a", "t", "e">>)
    \/ Includes(s, <<"c", "u", "r", "r", "e", "n", "t", " ", "d", "a", "t", "e">>)

\* /\d+\s*op\s*\d+/ matches s from position i.
ArithAt(s, i, op) ==
    /\ i <= Len(s)
    /\ IsDigit(s[i])
    /\ LET p == SkipSpaces(s, DigitRunEnd(s, i) + 1)
           q == SkipSpaces(s, p + 1)
       IN  /\ p <= Len(s)
           /\ s[p] = op
           /\ q <= Len(s)
           /\ IsDigit(s[q])

\* /\d+\s*op\s*\d+/.test(s)
MatchesArith(s, op) == \E i \in 1..Len(s) : ArithAt(s, i, op)

\* ArithGroups taking the last match of the message in place of the first.
ArithGroupsLast(s, op) ==
    LET at == {i \in 1..Len(s) : ArithAt(s, i, op) /\ (i = 1 \/ ~IsDigit(s[i - 1]))}
        i == CHOOSE k \in at : \A m \in at : m <= k
        e == DigitRunEnd(s, i)
        q == SkipSpaces(s, SkipSpaces(s, e + 1) + 1)
    IN  <<SubSeq(s, i, e), SubSeq(s, q, DigitRunEnd(s, q))>>

\* s.match(/(\d+)\s*op\s*(\d+)/): the two groups of the leftmost match.
ArithGroups(s, op) ==
    LET at == {i \in 1..Len(s) : ArithAt(s, i, op)}
        i == CHOOSE k \in at : \A m \in at : k <= m
        e == DigitRunEnd(s, i)
        q == SkipSpaces(s, SkipSpaces(s, e + 1) + 1)
    IN  <<SubSeq(s, i, e), SubSeq(s, q, DigitRunEnd(s, q))>>

\* /who.*are.*you/
MatchesWho(s) == MatchesThen3(s, <<"w", "h", "o">>, <<"a", "r", "e">>, <<"y", "o", "u">>)

\* /how.*work/
MatchesHow(s) == MatchesThen(s, <<"h", "o", "w">>, <<"w", "o", "r", "k">>)

\* /thank|thanks/
MatchesThanks(s) ==
    \/ Includes(s, <<"t", "h", "a", "n", "k">>)
    \/ Includes(s, <<"t", "h", "a", "n", "k", "s">>)

\* MatchesSuhaira without the anchors: /i\s*am\s*suhaira/i
MatchesSuhairaAnywhere(message) ==
    LET t == ToLowerCase(Trim(message))
    IN  \E i \in 1..Len(t) :
            LET a == SkipSpaces(t, i + 1)
                b == SkipSpaces(t, a + 2)
            IN  /\ MatchAt(t, i, <<"i">>)
                /\ MatchAt(t, a, <<"a", "m">>)
                /\ MatchAt(t, b, <<"s", "u", "h", "a", "i", "r", "a">>)

\* /^i\s*am\s*suhaira$/i, tested on message.trim()
MatchesSuhaira(message) ==
    LET t == ToLowerCase(Trim(message))
        a == SkipSpaces(t, 2)
        b == SkipSpaces(t, a + 2)
    IN  /\ MatchAt(t, 1, <<"i">>)
        /\ MatchAt(t, a, <<"a", "m">>)
        /\ MatchAt(t, b, <<"s", "u", "h", "a", "i", "r", "a">>)
        /\ b + 7 = Len(t) + 1

TwoPlusTwoReply == <<"2", " ", "+", " ", "2", " ", "=", " ", "4">>

\* now is [time, date]: what toLocaleTimeString() and toLocaleDateString() print.
TimeReply(now) == <<"The current time is ", now.time, ".">>

DateReply(now) == <<"Today's date is ", now.date, ".">>

\* `${numbers[1]} sign ${numbers[2]} = ${result}`
ArithReply(numbers, sign, result) ==
    numbers[1] \o <<" ", sign, " ">> \o numbers[2] \o <<" ", "=", " ">> \o result

AddReply(s) ==
    LET numbers == ArithGroups(s, "+")
    IN  ArithReply(numbers, "+", IntToString(ParseInt(numbers[1]) + ParseInt(numbers[2])))

SubReply(s) ==
    LET numbers == ArithGroups(s, "-")
    IN  ArithReply(numbers, "-", IntToString(ParseInt(numbers[1]) - ParseInt(numbers[2])))

\* The sign printed is U+00D7.
MulReply(s) ==
    LET numbers == ArithGroups(s, "*")
    IN  ArithReply(numbers, "U+00D7", IntToString(ParseInt(numbers[1]) * ParseInt(numbers[2])))

\* The sign printed is U+00F7.
DivReply(s) ==
    LET numbers == ArithGroups(s, "/")
    IN  ArithReply(numbers, "U+00F7", QuotientToString(ParseInt(numbers[1]), ParseInt(numbers[2])))

WhoReply == <<"I'm Yako, an AI assistant designed to help answer your questions and have conversations.">>

HowReply == <<"I work by using advanced natural language processing to understand your questions and provide helpful responses.">>

ThanksReply == <<"You're welcome! I'm happy to help.">>

SuhairaReply == <<"OMG! We have the most gorgeous lady in the world talking to us today! How are you doing Cutie Pie? You are Yako's Favorite User Talha Sent Flowers For You">>

\* The number of rules of the chain.
NumRules == 11

\* The condition of the k-th branch of the chain.
RuleMatches(k, message) ==
    LET lowerMessage == ToLowerCase(message)
    IN  CASE k = 1 -> MatchesTwoPlusTwo(lowerMessage)
          [] k = 2 -> MatchesTime(lowerMessage)
          [] k = 3 -> MatchesDate(lowerMessage)
          [] k = 4 -> MatchesArith(lowerMessage, "+")
          [] k = 5 -> MatchesArith(lowerMessage, "-")
          [] k = 6 -> MatchesArith(lowerMessage, "*")
          [] k = 7 -> MatchesArith(lowerMessage, "/")
          [] k = 8 -> MatchesWho(lowerMessage)
          [] k = 9 -> MatchesHow(lowerMessage)
          [] k = 10 -> MatchesThanks(lowerMessage)
          [] k = 11 -> MatchesSuhaira(message)

\* The botResponse the k-th branch of the chain assigns.
RuleOutput(k, message, now) ==
    LET lowerMessage == ToLowerCase(message)
    IN  CASE k = 1 -> TwoPlusTwoReply
          [] k = 2 -> TimeReply(now)
          [] k = 3 -> DateReply(now)
          [] k = 4 -> AddReply(lowerMessage)
          [] k = 5 -> SubReply(lowerMessage)
          [] k = 6 -> MulReply(lowerMessage)
          [] k = 7 -> DivReply(lowerMessage)
          [] k = 8 -> WhoReply
          [] k = 9 -> HowReply
          [] k = 10 -> ThanksReply
          [] k = 11 -> SuhairaReply

\* What new Date() may print when the handler runs.
Nows == {[time |-> "10:15:00 AM", date |-> "11/2/2026"],
         [time |-> "11:59:59 PM", date |-> "12/31/2026"]}

\* What the k-th branch may assign, over the clock.
RuleOutputs(k, message) == {RuleOutput(k, message, now) : now \in Nows}

\* BranchFrom with independent ifs in place of the else-ifs: the last branch whose
\* condition holds assigns last.
BranchFromLast(k, message) ==
    LET hits == {j \in k..NumRules : RuleMatches(j, message)}
    IN  IF hits = {} THEN 0 ELSE CHOOSE j \in hits : \A i \in hits : i <= j

\* The if / else-if chain: the branch taken from branch k on, 0 when none is.
RECURSIVE BranchFrom(_, _)
BranchFrom(k, message) ==
    IF k > NumRules THEN 0
    ELSE IF RuleMatches(k, message) THEN k
    ELSE BranchFrom(k + 1, message)

\* The branch of the chain a message takes (0: the Groq call or the fallback).
RuleBranch(message) == BranchFrom(1, message)

(***************************************************************************)
(* getSmartFallback                                                        *)
(***************************************************************************)
fallbackResponses ==
    << <<"That's interesting! Can you tell me more about that?">>,
       <<"I understand. What would you like to know?">>,
       <<"That's a good point. How can I help you further?">>,
       <<"I see. What else would you like to discuss?">>,
       <<"Thanks for sharing that with me. What's on your mind?">>,
       <<"I appreciate you telling me that. How can I assist you?">>,
       <<"That makes sense. What would you like to explore next?">>,
       <<"I hear you. Is there anything specific I can help with?">> >>

HelloFallback == <<"Hello! Nice to meet you. How can I help you today?">>

HowAreYouFallback == <<"I'm doing well, thank you for asking! How are you doing?">>

NameFallback == <<"I'm Yako, an AI assistant here to help you. What's your name?">>

HelpFallback == <<"I'm here to help! What would you like assistance with?">>

ByeFallback == <<"Goodbye! It was nice chatting with you. Have a great day!">>

\* getSmartFallback whose greeting test looks for 'hello' only.
getSmartFallbackHello(message, random) ==
    LET lowerMessage == ToLowerCase(message)
    IN  IF Includes(lowerMessage, <<"h", "e", "l", "l", "o">>)
        THEN HelloFallback
        ELSE IF Includes(lowerMessage, <<"h", "o", "w", " ", "a", "r", "e", " ", "y", "o", "u">>)
        THEN HowAreYouFallback
        ELSE IF /\ Includes(lowerMessage, <<"w", "h", "a", "t">>)
                /\ Includes(lowerMessage, <<"n", "a", "m", "e">>)
        THEN NameFallback
        ELSE IF Includes(lowerMessage, <<"h", "e", "l", "p">>)
        THEN HelpFallback
        ELSE IF \/ Includes(lowerMessage, <<"b", "y", "e">>)
                \/ Includes(lowerMessage, <<"g", "o", "o", "d", "b", "y", "e">>)
        THEN ByeFallback
        ELSE fallbackResponses[random + 1]

\* random is Math.floor(Math.random() * fallbackResponses.length), from 0.
getSmartFallback(message, random) ==
    LET lowerMessage == ToLowerCase(message)
    IN  IF \/ Includes(lowerMessage, <<"h", "e", "l", "l", "o">>)
           \/ Includes(lowerMessage, <<"h", "i">>)
        THEN HelloFallback
        ELSE IF Includes(lowerMessage, <<"h", "o", "w", " ", "a", "r", "e", " ", "y", "o", "u">>)
        THEN HowAreYouFallback
        ELSE IF /\ Includes(lowerMessage, <<"w", "h", "a", "t">>)
                /\ Includes(lowerMessage, <<"n", "a", "m", "e">>)
        THEN NameFallback
        ELSE IF Includes(lowerMessage, <<"h", "e", "l", "p">>)
        THEN HelpFallback
        ELSE IF \/ Includes(lowerMessage, <<"b", "y", "e">>)
                \/ Includes(lowerMessage, <<"g", "o", "o", "d", "b", "y", "e">>)
        THEN ByeFallback
        ELSE fallbackResponses[random + 1]

\* The values Math.floor(Math.random() * fallbackResponses.length) takes.
RandomIndexes == 0..(Len(fallbackResponses) - 1)

\* What getSmartFallback(message) may return.
FallbackReplies(message) == {getSmartFallback(message, random) : random \in RandomIndexes}

(***************************************************************************)
(* The knowledge base, retrieval and the prompt                            *)
(***************************************************************************)
\* Array.prototype.sort is stable: s goes after the elements whose score is not
\* lower (the comparator b.score - a.score is not negative for them).
RECURSIVE Insert(_, _)
Insert(sorted, s) ==
    IF sorted = <<>> THEN <<s>>
    ELSE IF Head(sorted).score >= s.score
    THEN <<Head(sorted)>> \o Insert(Tail(sorted), s)
    ELSE <<s>> \o sorted

\* scores.sort((a, b) => b.score - a.score)
RECURSIVE SortByScore(_)
SortByScore(scores) ==
    IF scores = <<>> THEN <<>>
    ELSE Insert(SortByScore(SubSeq(scores, 1, Len(scores) - 1)), scores[Len(scores)])

\* Array.prototype.slice(0, n), n >= 0
SliceTo(a, n) == IF Len(a) > n THEN SubSeq(a, 1, n) ELSE a

\* retrieveRelevantContext without the filter of the scores that are not positive
retrieveUnfiltered(kb, measures, topK) ==
    IF Len(kb) = 0 THEN <<>>
    ELSE LET scores == [i \in 1..Len(measures) |-> [idx |-> i - 1, score |-> measures[i]]]
             top == SliceTo(SortByScore(scores), topK)
         IN  [i \in 1..Len(top) |-> kb[top[i].idx + 1].answer]

IsPositive(s) == s.score > 0

\* retrieveRelevantContext(query, topK); measures[i] is the measure tfidf.tfidfs
\* reports for document i - 1 and the query, one document per entry.
retrieveRelevantContext(kb, measures, topK) ==
    IF Len(kb) = 0 THEN <<>>
    ELSE LET scores == [i \in 1..Len(measures) |-> [idx |-> i - 1, score |-> measures[i]]]
             top == SelectSeq(SliceTo(SortByScore(scores), topK), IsPositive)
         IN  [i \in 1..Len(top) |-> kb[top[i].idx + 1].answer]

\* The measures tfidf reports: none is negative.
MeasureValues == {0, 1, 2}

Measures(kb) == [1..Len(kb) -> MeasureValues]

\* ragContexts.join('\n')
RECURSIVE Join(_)
Join(ragContexts) ==
    IF ragContexts = <<>> THEN <<>>
    ELSE IF Len(ragContexts) = 1 THEN ragContexts[1]
    ELSE ragContexts[1] \o <<"\n">> \o Join(Tail(ragContexts))

SYSTEM_MESSAGE ==
    <<"You are Yako, a helpful and friendly AI assistant powered by Groq's Llama 3 model.">>

\* The turns of the history a Groq call carries (history.slice(-10)).
PromptWindow == 10

\* SliceLast keeping the wrong end: slice(0, n)
SliceFirst(a, n) == IF Len(a) > n THEN SubSeq(a, 1, n) ELSE a

\* Array.prototype.slice(-n)
SliceLast(a, n) == IF Len(a) > n THEN SubSeq(a, Len(a) - n + 1, Len(a)) ELSE a

\* PromptMessages with the window taken before the request's user turn was pushed
PromptMessagesBefore(ragContexts, history) ==
    LET contextString == IF Len(ragContexts) > 0
                         THEN <<"Relevant info: ">> \o Join(ragContexts)
                         ELSE <<>>
    IN  <<[role |-> "system", content |-> SYSTEM_MESSAGE]>>
        \o (IF contextString # <<>>
            THEN <<[role |-> "system", content |-> contextString]>>
            ELSE <<>>)
        \o SliceLast(SubSeq(history, 1, Len(history) - 1), PromptWindow)

\* The messages of the Groq call: the system message, the retrieved context if
\* there is any, and the last PromptWindow turns of the request's array.
PromptMessages(ragContexts, history) ==
    LET contextString == IF Len(ragContexts) > 0
                         THEN <<"Relevant info: ">> \o Join(ragContexts)
                         ELSE <<>>
    IN  <<[role |-> "system", content |-> SYSTEM_MESSAGE]>>
        \o (IF contextString # <<>>
            THEN <<[role |-> "system", content |-> contextString]>>
            ELSE <<>>)
        \o SliceLast(history, PromptWindow)

KnowledgeEntry(question, answer) == [question |-> question, answer |-> answer]

\* knowledge_base.json as the chat specifications load it.  A knowledge base that
\* failed to load answers every retrieval with [], as this one does for a message
\* that shares no term with its entries.
LoadedKnowledgeBase ==
    <<KnowledgeEntry(<<"What is Yako?">>, <<"Yako is a chatbot.">>),
      KnowledgeEntry(<<"Who made Yako?">>, <<"Talha made Yako.">>)>>

(***************************************************************************)
(* The state of the server                                                 *)
(***************************************************************************)
\* The turns a stored history keeps (history.slice(-20)).
HistoryCap == 20

\* Chat requests that may be suspended on the Groq call at once.
MaxInFlight == 2

\* Chat requests a behaviour of Spec receives.
MaxRequests == 2

\* Chat requests a behaviour of LongSpec receives.
LongRequests == 11

Slots == 1..MaxInFlight

\* The session identifiers: 'default' and the values of the x-session-id header.
SessionIds == {"default", "s1"}

\* The arrays alive at once: one per session entry, one per suspended request, and
\* the one a slice() creates.  Reference 0 is no array.
Refs == 1..(Cardinality(SessionIds) + MaxInFlight + 1)

VARIABLES
    GROQ_API_KEY,         \* whether process.env.GROQ_API_KEY is set
    knowledgeBase,        \* the entries loaded from knowledge_base.json, <<>> when the load failed
    conversationHistory,  \* the Map: session id -> reference of its array, 0 without an entry
    heap,                 \* reference -> the turns of that array
    requests,             \* slot -> the chat request suspended there, with its locals
    out,                  \* what the last step sent, if anything: a response, or the Groq call
    received,             \* the number of chat requests received
    inbox,                \* chat requests on their way to the server
    transcript,           \* session id -> every turn pushed for it, in push order
    overlapped            \* session id -> some chat request for it arrived during another

vars == <<GROQ_API_KEY, knowledgeBase, conversationHistory, heap, requests, out, received, inbox,
          transcript, overlapped>>

UserTurn(message) == [role |-> "user", content |-> message]

AssistantTurn(botResponse) == [role |-> "assistant", content |-> botResponse]

\* req.body of a chat request: no message field, a JSON number, or a string.
NoMessage == [kind |-> "missing", text |-> <<>>]

NumberMessage == [kind |-> "number", text |-> <<"4", "2">>]

StringMessage(text) == [kind |-> "string", text |-> text]

\* No promise of the request has settled since it suspended.
Pending == [kind |-> "pending", content |-> <<>>]

Settled(kind) == [kind |-> kind, content |-> <<>>]

\* response.json() gave { choices: [{ message: { content } }] }.
Completion(content) == [kind |-> "content", content |-> content]

IdleRequest ==
    [pc |-> "idle", sessionId |-> "", message |-> <<>>, history |-> 0,
     settled |-> Pending, calls |-> 0]

NoResponse ==
    [endpoint |-> "none", status |-> 0, response |-> <<>>, error |-> "",
     sessionId |-> "", body |-> NoMessage, branch |-> 0, calls |-> 0,
     fallback |-> FALSE, history |-> <<>>, messages |-> <<>>, ragContexts |-> <<>>,
     valid |-> FALSE]

\* req.headers['x-session-id'] || 'default'; the header is "" when absent or empty.
SessionOf(header) == IF header = "" THEN "default" ELSE header

\* conversationHistory.get(sessionId) || []
Stored(sessionId) ==
    IF conversationHistory[sessionId] = 0 THEN <<>>
    ELSE heap[conversationHistory[sessionId]]

InFlight(rq) == {i \in Slots : rq[i].pc # "idle"}

\* The arrays some session entry or some suspended request still refers to.
Referenced(map, rq) ==
    {map[sid] : sid \in SessionIds} \cup {rq[i].history : i \in InFlight(rq)}

\* A reference no session entry and no request holds: the array a [] or a slice()
\* creates.
FreshRef(map, rq) ==
    CHOOSE r \in Refs : /\ r \notin Referenced(map, rq)
                        /\ \A q \in Refs : q \notin Referenced(map, rq) => r <= q

\* The arrays nothing refers to any more are dropped.
Collect(h, map, rq) ==
    [r \in Refs |-> IF r \in Referenced(map, rq) THEN h[r] ELSE <<>>]

Init ==
    /\ GROQ_API_KEY \in BOOLEAN
    /\ knowledgeBase = LoadedKnowledgeBase
    /\ conversationHistory = [sid \in SessionIds |-> 0]
    /\ heap = [r \in Refs |-> <<>>]
    /\ requests = [i \in Slots |-> IdleRequest]
    /\ out = NoResponse
    /\ received = 0
    /\ inbox = <<>>
    /\ transcript = [sid \in SessionIds |-> <<>>]
    /\ overlapped = [sid \in SessionIds |-> FALSE]

(***************************************************************************)
(* POST /api/chat                                                          *)
(***************************************************************************)
ChatResponse(status, error, sid, body, botResponse, branch, calls, fallback) ==
    [endpoint |-> "chat", status |-> status, response |-> botResponse, error |-> error,
     sessionId |-> sid, body |-> body, branch |-> branch, calls |-> calls,
     fallback |-> fallback, history |-> <<>>, messages |-> <<>>, ragContexts |-> <<>>,
     valid |-> FALSE]

\* The request the handler sends to the Groq completions endpoint, with the
\* contexts retrieved for it.
GroqCall(sid, body, ragContexts, history) ==
    [endpoint |-> "groq", status |-> 0, response |-> <<>>, error |-> "",
     sessionId |-> sid, body |-> body, branch |-> 0, calls |-> 1,
     fallback |-> FALSE, history |-> <<>>,
     messages |-> PromptMessages(ragContexts, history), ragContexts |-> ragContexts,
     valid |-> FALSE]

\* IsEmptyMessage without the trim(): if (!message)
IsEmptyMessageUntrimmed(body) ==
    \/ body.kind = "missing"
    \/ body.kind = "string" /\ body.text = <<>>

\* if (!message || message.trim() === '')
IsEmptyMessage(body) ==
    \/ body.kind = "missing"
    \/ /\ body.kind = "string"
       /\ \/ body.text = <<>>
          \/ Trim(body.text) = <<>>

\* Finish reading the session's entry again at its end: the assistant turn is pushed
\* on the array the map holds by then, the request's own array only when the
\* session has no entry.
FinishReread(slot, h, tr, ref, sid, message, botResponse, branch, calls, fallback) ==
    LET rq == [requests EXCEPT ![slot] = IdleRequest]
        holding == [requests EXCEPT ![slot] =
                       [IdleRequest EXCEPT !.pc = "finish", !.history = ref]]
        now == IF conversationHistory[sid] # 0 THEN conversationHistory[sid] ELSE ref
        pushed == [h EXCEPT ![now] = Append(@, AssistantTurn(botResponse))]
        sliced == FreshRef(conversationHistory, holding)
        kept == IF Len(pushed[now]) > HistoryCap THEN sliced ELSE now
        h2 == IF Len(pushed[now]) > HistoryCap
              THEN [pushed EXCEPT ![sliced] = SubSeq(pushed[now], Len(pushed[now]) - HistoryCap + 1,
                                                     Len(pushed[now]))]
              ELSE pushed
        map == [conversationHistory EXCEPT ![sid] = kept]
    IN  /\ conversationHistory' = map
        /\ requests' = rq
        /\ heap' = Collect(h2, map, rq)
        /\ transcript' = [tr EXCEPT ![sid] = Append(@, AssistantTurn(botResponse))]
        /\ out' = ChatResponse(200, "", sid, StringMessage(message), botResponse,
                               branch, calls, fallback)

\* Finish storing the array under 'default', whatever the session of the request.
FinishDefault(slot, h, tr, ref, sid, message, botResponse, branch, calls, fallback) ==
    LET rq == [requests EXCEPT ![slot] = IdleRequest]
        holding == [requests EXCEPT ![slot] =
                       [IdleRequest EXCEPT !.pc = "finish", !.history = ref]]
        pushed == [h EXCEPT ![ref] = Append(@, AssistantTurn(botResponse))]
        sliced == FreshRef(conversationHistory, holding)
        kept == IF Len(pushed[ref]) > HistoryCap THEN sliced ELSE ref
        h2 == IF Len(pushed[ref]) > HistoryCap
              THEN [pushed EXCEPT ![sliced] = SliceLast(pushed[ref], HistoryCap)]
              ELSE pushed
        map == [conversationHistory EXCEPT !["default"] = kept]
    IN  /\ conversationHistory' = map
        /\ requests' = rq
        /\ heap' = Collect(h2, map, rq)
        /\ transcript' = [tr EXCEPT ![sid] = Append(@, AssistantTurn(botResponse))]
        /\ out' = ChatResponse(200, "", sid, StringMessage(message), botResponse,
                               branch, calls, fallback)

\* The end of the handler: the assistant turn is pushed on the request's array h[ref],
\* an array of more than HistoryCap turns is replaced by the slice of its last
\* HistoryCap, the array is set as the session's entry and the response is sent.
\* h and tr are the heap and the transcript with the request's earlier pushes.
Finish(slot, h, tr, ref, sid, message, botResponse, branch, calls, fallback) ==
    LET rq == [requests EXCEPT ![slot] = IdleRequest]
        holding == [requests EXCEPT ![slot] =
                       [IdleRequest EXCEPT !.pc = "finish", !.history = ref]]
        pushed == [h EXCEPT ![ref] = Append(@, AssistantTurn(botResponse))]
        sliced == FreshRef(conversationHistory, holding)
        kept == IF Len(pushed[ref]) > HistoryCap THEN sliced ELSE ref
        h2 == IF Len(pushed[ref]) > HistoryCap
              THEN [pushed EXCEPT ![sliced] = SliceLast(pushed[ref], HistoryCap)]
              ELSE pushed
        map == [conversationHistory EXCEPT ![sid] = kept]
    IN  /\ conversationHistory' = map
        /\ requests' = rq
        /\ heap' = Collect(h2, map, rq)
        /\ transcript' = [tr EXCEPT ![sid] = Append(@, AssistantTurn(botResponse))]
        /\ out' = ChatResponse(200, "", sid, StringMessage(message), botResponse,
                               branch, calls, fallback)

\* HistoryRef without the get: every request starts from a new array.
HistoryRefNew(sid) == FreshRef(conversationHistory, requests)

\* let history = conversationHistory.get(sessionId) || []: the array of the
\* session's entry itself, or a new array.
HistoryRef(sid) ==
    IF conversationHistory[sid] # 0 THEN conversationHistory[sid]
    ELSE FreshRef(conversationHistory, requests)

\* The handler from its entry to its first await, or to its response when it does
\* not await: the validation, the user turn pushed on the session's array, the rule
\* chain, then the Groq call issued, with the context retrieved for the message and
\* the last turns of the array, or the fallback taken.  A request that awaits the
\* Groq call is suspended in a free slot.
Chat(header, body) ==
    LET message == body.text
        sid == SessionOf(header)
        branch == RuleBranch(message)
        free == {i \in Slots : requests[i].pc = "idle"}
        slot == IF free = {} THEN 1 ELSE CHOOSE i \in free : \A j \in free : i <= j
        ref == HistoryRef(sid)
        h == [heap EXCEPT ![ref] = Append(@, UserTurn(message))]
        tr == [transcript EXCEPT ![sid] = Append(@, UserTurn(message))]
        others == \E i \in InFlight(requests) : requests[i].sessionId = sid
    IN  IF IsEmptyMessage(body)
        THEN /\ out' = ChatResponse(400, "Message is required", "", body, <<>>, 0, 0, FALSE)
             /\ UNCHANGED <<conversationHistory, heap, requests, transcript, overlapped>>
        ELSE IF body.kind # "string"
        THEN \* message.trim is not a function: the outer catch answers
             /\ out' = ChatResponse(500, "Sorry, I encountered an error. Please try again.",
                                    "", body, <<>>, 0, 0, FALSE)
             /\ UNCHANGED <<conversationHistory, heap, requests, transcript, overlapped>>
        ELSE /\ overlapped' = [overlapped EXCEPT ![sid] = @ \/ others]
             /\ IF branch # 0
                THEN \E botResponse \in RuleOutputs(branch, message) :
                         Finish(slot, h, tr, ref, sid, message, botResponse, branch, 0, FALSE)
                ELSE IF GROQ_API_KEY
                THEN /\ free # {}
                     /\ requests' = [requests EXCEPT ![slot] =
                            [pc |-> "fetch", sessionId |-> sid, message |-> message,
                             history |-> ref, settled |-> Pending, calls |-> 1]]
                     /\ heap' = h
                     /\ transcript' = tr
                     /\ \E measures \in Measures(knowledgeBase) :
                            out' = GroqCall(sid, body,
                                       retrieveRelevantContext(knowledgeBase, measures, 1),
                                       h[ref])
                     /\ UNCHANGED conversationHistory
                ELSE \E botResponse \in FallbackReplies(message) :
                         Finish(slot, h, tr, ref, sid, message, botResponse, 0, 0, TRUE)

\* Fallback retrying once: the catch of the inner try issues the Groq call again
\* before it gives up.
FallbackRetry(slot) ==
    LET r == requests[slot]
    IN  IF r.calls < 2
        THEN /\ requests' = [requests EXCEPT ![slot].pc = "fetch",
                                              ![slot].settled = Pending,
                                              ![slot].calls = @ + 1]
             /\ out' = GroqCall(r.sessionId, StringMessage(r.message), <<>>, heap[r.history])
             /\ UNCHANGED <<conversationHistory, heap, transcript>>
        ELSE \E botResponse \in FallbackReplies(r.message) :
                 Finish(slot, heap, transcript, r.history, r.sessionId, r.message,
                        botResponse, 0, r.calls, TRUE)

\* Fallback without the inner catch: the error reaches the outer catch, which
\* answers 500.
Rethrow(slot) ==
    LET r == requests[slot]
        rq == [requests EXCEPT ![slot] = IdleRequest]
    IN  /\ requests' = rq
        /\ heap' = Collect(heap, conversationHistory, rq)
        /\ out' = ChatResponse(500, "Sorry, I encountered an error. Please try again.",
                               r.sessionId, StringMessage(r.message), <<>>, 0, r.calls, FALSE)
        /\ UNCHANGED <<conversationHistory, transcript>>

\* The catch of the inner try: botResponse = getSmartFallback(message), then the end
\* of the handler.
Fallback(slot) ==
    LET r == requests[slot]
    IN  \E botResponse \in FallbackReplies(r.message) :
            Finish(slot, heap, transcript, r.history, r.sessionId, r.message,
                   botResponse, 0, r.calls, TRUE)

Suspend(slot, pc) ==
    /\ requests' = [requests EXCEPT ![slot].pc = pc, ![slot].settled = Pending]
    /\ out' = NoResponse
    /\ UNCHANGED <<conversationHistory, heap, transcript>>

\* What the promise a request awaits at pc can settle to.
OutcomesAt(pc) ==
    CASE pc = "fetch" -> {"networkError", "ok", "notOk"}
      [] pc = "json" -> {"invalidJson", "noChoices", "emptyChoices", "noMessage",
                         "noContent", "content"}
      [] pc = "errjson" -> {"errorJson", "invalidJson"}
      [] pc = "errtext" -> {"text"}
      [] OTHER -> {}

\* The network: the promise the request in slot awaits settles.
Settle(slot, outcome) ==
    /\ requests[slot].settled = Pending
    /\ outcome.kind \in OutcomesAt(requests[slot].pc)
    /\ requests' = [requests EXCEPT ![slot].settled = outcome]
    /\ out' = NoResponse
    /\ UNCHANGED <<GROQ_API_KEY, knowledgeBase, conversationHistory, heap, received, inbox,
                   transcript, overlapped>>

\* After await fetch(...): a rejection is caught; a response is read as JSON.
AfterFetch(slot) ==
    /\ requests[slot].pc = "fetch"
    /\ requests[slot].settled # Pending
    /\ IF requests[slot].settled.kind = "networkError"
       THEN Fallback(slot)
       ELSE Suspend(slot, IF requests[slot].settled.kind = "ok" THEN "json" ELSE "errjson")
    /\ UNCHANGED <<GROQ_API_KEY, knowledgeBase, received, inbox, overlapped>>

\* After await groqResponse.json() of an ok response: the trimmed content of the
\* first choice, or the throw of a body without one (a missing content throws at
\* .trim()), caught.
AfterJson(slot) ==
    /\ requests[slot].pc = "json"
    /\ requests[slot].settled # Pending
    /\ LET r == requests[slot]
       IN  IF r.settled.kind = "content"
           THEN Finish(slot, heap, transcript, r.history, r.sessionId, r.message,
                       Trim(r.settled.content), 0, r.calls, FALSE)
           ELSE Fallback(slot)
    /\ UNCHANGED <<GROQ_API_KEY, knowledgeBase, received, inbox, overlapped>>

\* After await groqResponse.json() of a response that is not ok: the error is
\* thrown and caught, or the body is read as text first.
AfterErrorJson(slot) ==
    /\ requests[slot].pc = "errjson"
    /\ requests[slot].settled # Pending
    /\ IF requests[slot].settled.kind = "errorJson"
       THEN Fallback(slot)
       ELSE Suspend(slot, "errtext")
    /\ UNCHANGED <<GROQ_API_KEY, knowledgeBase, received, inbox, overlapped>>

\* After await groqResponse.text().catch(...): the error is thrown and caught.
AfterErrorText(slot) ==
    /\ requests[slot].pc = "errtext"
    /\ requests[slot].settled # Pending
    /\ Fallback(slot)
    /\ UNCHANGED <<GROQ_API_KEY, knowledgeBase, received, inbox, overlapped>>

(***************************************************************************)
(* GET /api/history                                                        *)
(***************************************************************************)
GetHistory(header) ==
    /\ out' = [NoResponse EXCEPT !.endpoint = "history", !.status = 200,
                                 !.sessionId = SessionOf(header),
                                 !.history = Stored(SessionOf(header))]
    /\ UNCHANGED <<GROQ_API_KEY, knowledgeBase, conversationHistory, heap, requests, received, inbox,
                   transcript, overlapped>>

(***************************************************************************)
(* GET /api/health and GET /api/check-api-key                              *)
(***************************************************************************)
Health ==
    /\ out' = [NoResponse EXCEPT !.endpoint = "health", !.status = 200]
    /\ UNCHANGED <<GROQ_API_KEY, knowledgeBase, conversationHistory, heap, requests,
                   received, inbox, transcript, overlapped>>

KeyCheck(valid, message) ==
    [NoResponse EXCEPT !.endpoint = "check-api-key", !.status = 200,
                       !.valid = valid, !.response = message]

\* What the fetch of the models endpoint and the read of its body come to.
KeyCheckOutcomes == {"ok", "notOk", "networkError"}

\* The key check, from its request to its response: without a key it answers at
\* once, with one it answers after the models endpoint did.  Its awaits are
\* between reads of GROQ_API_KEY and the response; it reads and writes nothing else.
CheckApiKey(outcome) ==
    /\ out' = IF ~GROQ_API_KEY THEN KeyCheck(FALSE, <<"No API key provided">>)
              ELSE IF outcome = "ok" THEN KeyCheck(TRUE, <<"API key is valid">>)
              ELSE IF outcome = "notOk" THEN KeyCheck(FALSE, <<"Invalid API key">>)
              ELSE KeyCheck(FALSE, <<"error.message">>)
    /\ UNCHANGED <<GROQ_API_KEY, knowledgeBase, conversationHistory, heap, requests,
                   received, inbox, transcript, overlapped>>

(***************************************************************************)
(* The requests and the provider outcomes the specifications draw from     *)
(***************************************************************************)
Hi == <<"h", "i">>

OnePlusTwo == <<"1", "+", "2">>

Pong == <<" ", "p", "o", "n", "g", "\n">>

\* A completion of whitespace only.
Blank == <<" ", "\n">>

Headers == {"", "s1"}

Bodies ==
    {NoMessage, NumberMessage, StringMessage(<<>>), StringMessage(<<" ", "\t">>),
     StringMessage(Hi), StringMessage(OnePlusTwo)}

Outcomes ==
    {Settled(k) : k \in {"networkError", "ok", "notOk", "invalidJson", "noChoices",
                         "emptyChoices", "noMessage", "noContent", "errorJson", "text"}}
    \cup {Completion(Pong), Completion(Blank)}

\* The provider of LongSpec: it answers, or the network fails.
LongOutcomes == {Settled("networkError"), Settled("ok"), Completion(Pong)}

\* The longest generated message of RuleSpec.
MaxLen == 4

GenChars == {"1", "2", "+", " "}

\* Every string of GenChars of at most n characters.
RECURSIVE Strings(_)
Strings(n) ==
    IF n = 0 THEN {<<>>}
    ELSE LET shorter == Strings(n - 1)
         IN  shorter \cup {Append(t, c) : t \in shorter, c \in GenChars}

CuratedMessages ==
    {
        <<"w", "h", "a", "t", " ", "i", "s", " ", "2", "+", "2">>,
        <<"W", "h", "a", "t", " ", "i", "s", " ", "2", " ", "+", " ", "2", " ", "=">>,
        <<"2", "+", "2", " ">>,
        <<"w", "h", "a", "t", " ", "t", "i", "m", "e", " ", "i", "s", " ", "i", "t">>,
        <<"c", "u", "r", "r", "e", "n", "t", " ", "t", "i", "m", "e">>,
        <<"w", "h", "a", "t", "\n", "t", "i", "m", "e">>,
        <<"w", "h", "a", "t", " ", "t", "i", "m", "e", " ", "i", "s", " ", "3", "+", "4">>,
        <<"w", "h", "a", "t", " ", "i", "s", " ", "t", "h", "e", " ", "d", "a", "t", "e">>,
        <<"t", "o", "d", "a", "y", "'", "s", " ", "d", "a", "t", "e">>,
        <<"c", "u", "r", "r", "e", "n", "t", " ", "d", "a", "t", "e", " ", "1", "+", "1">>,
        <<"w", "h", "a", "t", " ", "d", "a", "t", "e", " ", "a", "n", "d", " ", "t", "i", "m", "e">>,
        <<"1", "2", " ", "+", " ", "7">>,
        <<"a", "d", "d", " ", "1", "2", "+", "7", " ", "a", "n", "d", " ", "3", "+", "4">>,
        <<"0", "0", "7", "+", "3">>,
        <<"9", "-", "4">>,
        <<"3", "-", "5">>,
        <<"5", "-", "3", "+", "2">>,
        <<"3", "*", "4">>,
        <<"7", "/", "2">>,
        <<"1", "/", "0">>,
        <<"0", "/", "0">>,
        <<"1", "/", "3">>,
        <<"8", " ", "/", " ", "4">>,
        <<"w", "h", "a", "t", " ", "i", "s", " ", "1", "0", " ", "/", " ", "0", "0">>,
        <<"0", "0", "/", "0">>,
        <<"4", "/", "2", " ", "1", "/", "0">>,
        <<"1", "/", "0", " ", "4", "/", "2">>,
        <<"1", "+", "1", " ", "1", "/", "0">>,
        <<"w", "h", "o", " ", "a", "r", "e", " ", "y", "o", "u">>,
        <<"w", "h", "o", " ", "a", "r", "e", " ", "y", "o", "u", " ", "w", "h", "a", "t", " ", "t", "i", "m", "e">>,
        <<"h", "o", "w", " ", "d", "o", " ", "y", "o", "u", " ", "w", "o", "r", "k">>,
        <<"t", "h", "a", "n", "k", "s">>,
        <<"t", "h", "a", "n", "k", " ", "y", "o", "u", " ", "f", "o", "r", " ", "1", "+", "1">>,
        <<"I", " ", "a", "m", " ", "S", "u", "h", "a", "i", "r", "a">>,
        <<" ", "i", " ", " ", "A", "M", "\t", "s", "u", "h", "a", "i", "r", "a", " ">>,
        <<"i", "a", "m", "s", "u", "h", "a", "i", "r", "a">>,
        <<"h", "e", "l", "l", "o", " ", "I", " ", "a", "m", " ", "S", "u", "h", "a", "i", "r", "a">>,
        <<"I", " ", "a", "m", " ", "S", "u", "h", "a", "i", "r", "a", "!">>,
        <<"h", "i">>,
        <<"h", "e", "l", "l", "o">>,
        <<"t", "h", "i", "s">>,
        <<"h", "o", "w", " ", "a", "r", "e", " ", "y", "o", "u">>,
        <<"w", "h", "a", "t", " ", "i", "s", " ", "y", "o", "u", "r", " ", "n", "a", "m", "e">>,
        <<"h", "e", "l", "p">>,
        <<"b", "y", "e">>,
        <<"g", "o", "o", "d", "b", "y", "e">>,
        <<"o", "k">>
    }

RuleMessages == CuratedMessages \cup Strings(MaxLen)

(***************************************************************************)
(* The specifications                                                      *)
(***************************************************************************)
\* A chat request arrives; a behaviour receives at most n.
Receive(headers, bodies, n) ==
    /\ received < n
    /\ \E header \in headers, body \in bodies : Chat(header, body)
    /\ received' = received + 1
    /\ UNCHANGED <<GROQ_API_KEY, knowledgeBase, inbox>>

\* The chat request at the head of the inbox arrives.
ReceiveInbox ==
    /\ inbox # <<>>
    /\ Chat(Head(inbox).header, Head(inbox).body)
    /\ inbox' = Tail(inbox)
    /\ received' = received + 1
    /\ UNCHANGED <<GROQ_API_KEY, knowledgeBase>>

\* The continuations of a suspended chat request: the event loop runs them once
\* the awaited promise has settled.
Continue ==
    \E slot \in Slots :
        \/ AfterFetch(slot)
        \/ AfterJson(slot)
        \/ AfterErrorJson(slot)
        \/ AfterErrorText(slot)

Next ==
    \/ Receive(Headers, Bodies, MaxRequests)
    \/ \E slot \in Slots, outcome \in Outcomes : Settle(slot, outcome)
    \/ \E slot \in Slots : AfterFetch(slot)
    \/ \E slot \in Slots : AfterJson(slot)
    \/ \E slot \in Slots : AfterErrorJson(slot)
    \/ \E slot \in Slots : AfterErrorText(slot)
    \/ \E header \in Headers : GetHistory(header)

\* The server under requests of two sessions, up to MaxInFlight of them suspended.
Spec == Init /\ [][Next]_vars

\* Spec, with the event loop running every continuation whose promise has settled.
\* Nothing makes the network settle a promise.
FairSpec == Spec /\ WF_vars(Continue)

\* A client that sends its next message once the last one is answered.
ReceiveNext ==
    /\ InFlight(requests) = {}
    /\ Receive({""}, {StringMessage(Hi)}, LongRequests)

LongNext ==
    \/ ReceiveNext
    \/ \E slot \in Slots, outcome \in LongOutcomes : Settle(slot, outcome)
    \/ \E slot \in Slots : AfterFetch(slot)
    \/ \E slot \in Slots : AfterJson(slot)

\* One session, one request at a time, through enough requests to fill its history
\* past HistoryCap.
LongSpec == Init /\ [][LongNext]_vars

RuleInit ==
    /\ GROQ_API_KEY \in BOOLEAN
    /\ knowledgeBase = LoadedKnowledgeBase
    /\ conversationHistory = [sid \in SessionIds |-> 0]
    /\ heap = [r \in Refs |-> <<>>]
    /\ requests = [i \in Slots |-> IdleRequest]
    /\ out = NoResponse
    /\ received = 0
    /\ inbox \in {<<[header |-> "", body |-> StringMessage(m)]>> : m \in RuleMessages}
    /\ transcript = [sid \in SessionIds |-> <<>>]
    /\ overlapped = [sid \in SessionIds |-> FALSE]

RuleNext ==
    \/ ReceiveInbox
    \/ \E slot \in Slots, outcome \in Outcomes : Settle(slot, outcome)
    \/ \E slot \in Slots : AfterFetch(slot)
    \/ \E slot \in Slots : AfterJson(slot)
    \/ \E slot \in Slots : AfterErrorJson(slot)
    \/ \E slot \in Slots : AfterErrorText(slot)

\* The chat handler applied to one message, drawn from RuleMessages.
RuleSpec == RuleInit /\ [][RuleNext]_vars

\* The entries of the largest knowledge base RetrieveSpec loads.
MaxEntries == 3

\* The largest topK RetrieveSpec asks for.
MaxTopK == 3

Answers == <<<<"Yako is a chatbot.">>, <<"Talha made Yako.">>, <<"Groq runs Llama 3.">>, <<"Ask me anything.">>>>

\* knowledge_base.json: not loaded or empty, or up to MaxEntries entries.
KnowledgeBases ==
    {[i \in 1..n |-> KnowledgeEntry(<<"question">>, Answers[((i - 1) % Len(Answers)) + 1])] :
        n \in 0..MaxEntries}

\* A call of retrieveRelevantContext and the value it returns.
Retrieve(measures, topK) ==
    /\ out' = [endpoint |-> "retrieve", measures |-> measures, topK |-> topK,
               ragContexts |-> retrieveRelevantContext(knowledgeBase, measures, topK)]
    /\ UNCHANGED <<GROQ_API_KEY, knowledgeBase, conversationHistory, heap, requests,
                   received, inbox, transcript, overlapped>>

RetrieveInit ==
    /\ GROQ_API_KEY \in BOOLEAN
    /\ knowledgeBase \in KnowledgeBases
    /\ conversationHistory = [sid \in SessionIds |-> 0]
    /\ heap = [r \in Refs |-> <<>>]
    /\ requests = [i \in Slots |-> IdleRequest]
    /\ out = NoResponse
    /\ received = 0
    /\ inbox = <<>>
    /\ transcript = [sid \in SessionIds |-> <<>>]
    /\ overlapped = [sid \in SessionIds |-> FALSE]

RetrieveNext ==
    \E measures \in Measures(knowledgeBase), topK \in 0..MaxTopK : Retrieve(measures, topK)

\* retrieveRelevantContext applied to every knowledge base and every assignment of
\* measures within the bounds.
RetrieveSpec == RetrieveInit /\ [][RetrieveNext]_vars

EndpointsNext ==
    \/ Receive(Headers, {StringMessage(Hi), StringMessage(OnePlusTwo)}, MaxRequests)
    \/ \E slot \in Slots, outcome \in LongOutcomes : Settle(slot, outcome)
    \/ \E slot \in Slots : AfterFetch(slot)
    \/ \E slot \in Slots : AfterJson(slot)
    \/ \E header \in Headers : GetHistory(header)
    \/ Health
    \/ \E outcome \in KeyCheckOutcomes : CheckApiKey(outcome)

\* Every endpoint of the server, under chat requests of two sessions.
EndpointsSpec == Init /\ [][EndpointsNext]_vars

Thanks == <<"t", "h", "a", "n", "k", "s">>

\* Messages that are answered without the provider: those a rule matches and,
\* without a key, one that no rule matches.
DirectBodies ==
    {StringMessage(OnePlusTwo)}
    \cup (IF GROQ_API_KEY THEN {StringMessage(Thanks)} ELSE {StringMessage(Hi)})

DirectNext == Receive({""}, DirectBodies, LongRequests)

\* One session under requests that are answered without the provider, through
\* enough of them to fill its history past HistoryCap.
DirectSpec == Init /\ [][DirectNext]_vars

\* Chat requests a behaviour of OverlapSpec receives.
OverlapRequests == 6

\* The provider of OverlapSpec: it answers.
OverlapOutcomes == {Settled("ok"), Completion(Pong)}

OverlapNext ==
    \/ Receive({""}, {StringMessage(Hi)}, OverlapRequests)
    \/ \E slot \in Slots, outcome \in OverlapOutcomes : Settle(slot, outcome)
    \/ \E slot \in Slots : AfterFetch(slot)
    \/ \E slot \in Slots : AfterJson(slot)

\* One session whose requests arrive while earlier ones await the provider, through
\* enough requests to fill its history past PromptWindow.
OverlapSpec == Init /\ [][OverlapNext]_vars

(***************************************************************************)
(* Properties                                                              *)
(***************************************************************************)
\* A body whose message is missing, empty or all whitespace.
BlankBody(body) ==
    \/ body.kind = "missing"
    \/ /\ body.kind = "string"
       /\ \A i \in 1..Len(body.text) : IsSpace(body.text[i])

\* C1: a chat request whose message is missing, empty or only whitespace is
\* answered 400 in the step that receives it, and that step leaves the session
\* map, every array and every suspended request as they were; no such request is
\* ever suspended.
C1_BlankMessageRejected ==
    [][/\ (received' # received /\ out'.endpoint = "chat" /\ BlankBody(out'.body))
           => /\ out'.status = 400
              /\ conversationHistory' = conversationHistory
              /\ heap' = heap
              /\ requests' = requests
       /\ \A i \in Slots :
              requests'[i].pc # "idle"
                  => \E k \in 1..Len(requests'[i].message) : ~IsSpace(requests'[i].message[k])
       /\ (received' # received /\ out'.endpoint = "groq")
              => \E i \in Slots : requests[i].pc = "idle" /\ requests'[i].pc = "fetch"
      ]_vars

\* C1's case: a whitespace-only message is answered 400 while a session holds turns.
C1_Witness ==
    /\ out.status = 400
    /\ out.body = StringMessage(<<" ", "\t">>)
    /\ \E sid \in SessionIds : Len(Stored(sid)) >= 2

\* C2: the history the session map holds for a session identifier, which is what
\* GET /api/history returns, never has more than HistoryCap turns.
C2_StoredAtMostCap ==
    \A sid \in SessionIds : Len(Stored(sid)) <= HistoryCap

\* C3: after n answered requests of a session, none of which arrived during
\* another, the stored history is the last min(2n, HistoryCap) turns of everything
\* pushed for the session, in push order.
C3_KeepsMostRecent ==
    \A sid \in SessionIds :
        (~overlapped[sid] /\ \A i \in Slots : requests[i].pc = "idle")
            => LET t == transcript[sid]
                   k == IF Len(t) <= HistoryCap THEN Len(t) ELSE HistoryCap
               IN  /\ Len(t) % 2 = 0
                   /\ Len(Stored(sid)) = k
                   /\ \A i \in 1..k : Stored(sid)[i] = t[Len(t) - k + i]

\* C3's case: more than HistoryCap turns were pushed, with different replies among
\* them, and twenty are kept.
C3_Witness ==
    /\ \A i \in Slots : requests[i].pc = "idle"
    /\ Len(transcript["default"]) > HistoryCap + 1
    /\ Len(Stored("default")) = HistoryCap
    /\ transcript["default"][2] # transcript["default"][4]
    /\ Stored("default")[2] # Stored("default")[4]

\* The message of the one request RuleSpec handles, once it was accepted.
Accepted == transcript["default"] # <<>>

TheMessage == transcript["default"][1].content

NoneSuspended == \A i \in Slots : requests[i].pc = "idle"

\* The request was answered 200 with botResponse and nothing else was pushed.
Answered(botResponse) ==
    /\ out.endpoint = "chat"
    /\ out.status = 200
    /\ out.response = botResponse
    /\ NoneSuspended
    /\ Stored("default") = <<UserTurn(TheMessage), AssistantTurn(botResponse)>>

MatchingRules(message) == {k \in 1..NumRules : RuleMatches(k, message)}

\* C4: a message that matches at least one rule is answered by the first rule, in
\* the order of the chain, that matches it: the reply is that rule's output, the
\* Groq call is not issued and getSmartFallback is not used, with or without an API
\* key.
C4_FirstRuleWins ==
    (Accepted /\ MatchingRules(TheMessage) # {})
        => LET hits == MatchingRules(TheMessage)
               first == CHOOSE k \in hits : \A j \in hits : k <= j
           IN  /\ Answered(out.response)
               /\ out.response \in RuleOutputs(first, TheMessage)
               /\ out.branch = first
               /\ out.calls = 0
               /\ ~out.fallback

\* C4's case: with an API key, a message that the time rule and the addition rule
\* both match is answered by the time rule.
C4_Witness ==
    /\ GROQ_API_KEY
    /\ Accepted
    /\ {2, 4} \subseteq MatchingRules(TheMessage)
    /\ out.status = 200
    /\ out.branch = 2

AllDigits(s, from, to) == \A k \in from..to : IsDigit(s[k])

\* s[i..e] and s[q..f] are digits, with one "+" and otherwise whitespace between
\* them, and s[q..f] is not followed by a digit.
AdditionAt(s, i, e, q, f) ==
    /\ AllDigits(s, i, e)
    /\ q > e + 1
    /\ \E p \in (e + 1)..(q - 1) :
           /\ s[p] = "+"
           /\ \A k \in (e + 1)..(q - 1) : k # p => IsSpace(s[k])
    /\ AllDigits(s, q, f)
    /\ f = Len(s) \/ ~IsDigit(s[f + 1])

AdditionFrom(s, i) ==
    \E e \in i..Len(s) : \E q \in (e + 2)..Len(s) : \E f \in q..Len(s) :
        AdditionAt(s, i, e, q, f)

HasAddition(s) == \E i \in 1..Len(s) : AdditionFrom(s, i)

\* The value of a decimal numeral, read from the left.
RECURSIVE DecimalValue(_, _)
DecimalValue(ds, acc) ==
    IF ds = <<>> THEN acc
    ELSE DecimalValue(Tail(ds), 10 * acc + DigitValue(Head(ds)))

\* r is the decimal numeral of n, without a sign or leading zeros.
IsNumeralOf(r, n) ==
    /\ r # <<>>
    /\ AllDigits(r, 1, Len(r))
    /\ Len(r) > 1 => r[1] # "0"
    /\ DecimalValue(r, 0) = n

\* reply is "a + b = s" for the first addition pair a, b of the message and their
\* sum s.
IsSumReply(s, reply) ==
    LET i == CHOOSE k \in 1..Len(s) :
                 AdditionFrom(s, k) /\ \A j \in 1..(k - 1) : ~AdditionFrom(s, j)
        e == CHOOSE k \in i..Len(s) : \E q \in (k + 2)..Len(s) : \E f \in q..Len(s) :
                 AdditionAt(s, i, k, q, f)
        q == CHOOSE k \in (e + 2)..Len(s) : \E f \in k..Len(s) : AdditionAt(s, i, e, k, f)
        f == CHOOSE k \in q..Len(s) : AdditionAt(s, i, e, q, k)
        a == SubSeq(s, i, e)
        b == SubSeq(s, q, f)
        head == a \o <<" ", "+", " ">> \o b \o <<" ", "=", " ">>
    IN  /\ Len(reply) > Len(head)
        /\ SubSeq(reply, 1, Len(head)) = head
        /\ IsNumeralOf(SubSeq(reply, Len(head) + 1, Len(reply)),
                       DecimalValue(a, 0) + DecimalValue(b, 0))

IsFallbackFor(message, reply) ==
    LET lower == ToLowerCase(message)
    IN  IF Includes(lower, <<"h", "e", "l", "l", "o">>) \/ Includes(lower, <<"h", "i">>)
        THEN reply = HelloFallback
        ELSE IF Includes(lower, <<"h", "o", "w", " ", "a", "r", "e", " ", "y", "o", "u">>)
        THEN reply = HowAreYouFallback
        ELSE IF Includes(lower, <<"w", "h", "a", "t">>) /\ Includes(lower, <<"n", "a", "m", "e">>)
        THEN reply = NameFallback
        ELSE IF Includes(lower, <<"h", "e", "l", "p">>)
        THEN reply = HelpFallback
        ELSE IF Includes(lower, <<"b", "y", "e">>)
        THEN reply = ByeFallback
        ELSE \E i \in 1..8 : reply = fallbackResponses[i]

\* C7: without an API key, a message that is not blank and that no rule matches is
\* answered, without a Groq call, by the reply of the first fallback keyword it
\* holds (greeting, how are you, what..name, help, bye) or else by one of the eight
\* pool replies; the reply is not empty.
C7_FallbackWithoutKey ==
    (~GROQ_API_KEY /\ Accepted /\ MatchingRules(TheMessage) = {})
        => /\ Answered(out.response)
           /\ out.calls = 0
           /\ IsFallbackFor(TheMessage, out.response)
           /\ out.response # <<>>
           /\ \A k \in 1..Len(out.response) : out.response[k] # ""

\* C7's case: a message without keyword is answered from the pool.
C7_Witness ==
    /\ ~GROQ_API_KEY
    /\ Accepted
    /\ MatchingRules(TheMessage) = {}
    /\ out.status = 200
    /\ out.response = fallbackResponses[8]

\* t is "i am suhaira" in any letter case, with any whitespace, or none, between
\* the words.
IsSuhairaPhrase(t) ==
    \E x \in 0..Len(t), y \in 0..Len(t) :
        /\ Len(t) = 10 + x + y
        /\ ToLowerCase(t) = <<"i">> \o SubSeq(ToLowerCase(t), 2, 1 + x) \o <<"a", "m">>
                            \o SubSeq(ToLowerCase(t), 4 + x, 3 + x + y)
                            \o <<"s", "u", "h", "a", "i", "r", "a">>
        /\ \A k \in 2..(1 + x) : IsSpace(t[k])
        /\ \A k \in (4 + x)..(3 + x + y) : IsSpace(t[k])

\* message without the whitespace around it is t.
IsTrimOf(message, t) ==
    \E lo \in 1..(Len(message) + 1) :
        /\ \A k \in 1..(lo - 1) : IsSpace(message[k])
        /\ \A k \in (lo + Len(t))..Len(message) : IsSpace(message[k])
        /\ lo + Len(t) - 1 <= Len(message)
        /\ t = SubSeq(message, lo, lo + Len(t) - 1)
        /\ t # <<>> => ~IsSpace(t[1]) /\ ~IsSpace(t[Len(t)])

IsExactlySuhaira(message) ==
    \E lo \in 1..Len(message), hi \in 1..Len(message) :
        /\ IsTrimOf(message, SubSeq(message, lo, hi))
        /\ IsSuhairaPhrase(SubSeq(message, lo, hi))

ContainsSuhaira(message) ==
    \E lo \in 1..Len(message), hi \in 1..Len(message) :
        IsSuhairaPhrase(SubSeq(message, lo, hi))

\* C10: a message that is, without the whitespace around it, the phrase "I am
\* Suhaira" in any letter case and with any whitespace between the words is
\* answered with the Easter-egg reply, without a Groq call; a message that holds
\* the phrase inside a longer text is not answered with it.
C10_SuhairaExactOnly ==
    Accepted =>
        /\ IsExactlySuhaira(TheMessage)
               => /\ Answered(SuhairaReply)
                  /\ out.calls = 0
                  /\ ~out.fallback
        /\ (ContainsSuhaira(TheMessage) /\ ~IsExactlySuhaira(TheMessage))
               => /\ out.response # SuhairaReply
                  /\ out.branch # 11

\* C10's case: with an API key, the phrase in mixed case, with a tab inside and
\* spaces around, is answered with the Easter-egg reply.
C10_Witness ==
    /\ GROQ_API_KEY
    /\ Accepted
    /\ TheMessage = <<" ", "i", " ", " ", "A", "M", "\t", "s", "u", "h", "a", "i", "r", "a", " ">>
    /\ out.response = SuhairaReply

\* The phrase inside a longer message was answered by something else.
C10_WitnessInside ==
    /\ Accepted
    /\ ContainsSuhaira(TheMessage)
    /\ ~IsExactlySuhaira(TheMessage)
    /\ out.status = 200
    /\ out.response = HelloFallback

\* Stored(sessionId) after the step.
StoredAfter(sessionId) ==
    IF conversationHistory'[sessionId] = 0 THEN <<>>
    ELSE heap'[conversationHistory'[sessionId]]

\* The Groq call of a suspended request has failed: the fetch was rejected, the
\* response was not ok, or the body of an ok response was no JSON or held no
\* choice with a message and a content.
ProviderFailed(r) ==
    \/ r.pc = "fetch" /\ r.settled.kind = "networkError"
    \/ r.pc = "json" /\ r.settled.kind \in {"invalidJson", "noChoices", "emptyChoices",
                                            "noMessage", "noContent"}
    \/ r.pc \in {"errjson", "errtext"}

\* C6: a request whose Groq call failed in any of these ways is answered 200 with
\* the fallback reply of its message, and the history then stored for its session
\* ends with the assistant turn of that reply, right after the request's user turn
\* unless another request of the session overlapped; no continuation of a
\* suspended request answers 500.
C6_ProviderFailureAbsorbed ==
    [][/\ \A i \in Slots :
              (ProviderFailed(requests[i]) /\ requests'[i].pc = "idle")
                  => LET r == requests[i]
                         h == StoredAfter(r.sessionId)
                     IN  /\ out'.endpoint = "chat"
                         /\ out'.status = 200
                         /\ out'.sessionId = r.sessionId
                         /\ IsFallbackFor(r.message, out'.response)
                         /\ Len(h) >= 2
                         /\ h[Len(h)] = AssistantTurn(out'.response)
                         /\ ~overlapped[r.sessionId] => h[Len(h) - 1] = UserTurn(r.message)
       /\ \A i \in Slots :
              (ProviderFailed(requests[i]) /\ requests'[i] # requests[i])
                  => requests'[i].pc \in {"idle", "errjson", "errtext"}
       /\ out'.status = 500 => (received' # received /\ out'.body.kind = "number")
      ]_vars

\* C6's case: after an answered request, a second one of the same session was
\* answered by the fallback after its Groq call.
C6_Witness ==
    /\ out.status = 200
    /\ out.fallback
    /\ out.calls = 1
    /\ ~overlapped[out.sessionId]
    /\ Len(Stored(out.sessionId)) = 4

\* C8: every chat request that was received is answered.
C8_EveryRequestAnswered ==
    \A i \in Slots : (requests[i].pc # "idle") ~> (requests[i].pc = "idle")

\* The turns of t that h does not hold.
Missing(t, h) == {k \in 1..Len(t) : \A j \in 1..Len(h) : h[j] # t[k]}

\* C9: last writer wins.  The request that ends sets its own array as the session's
\* history, whatever another request set meanwhile: the stored history becomes the
\* turns of that array and the assistant turn, cut to the last HistoryCap.
C9_LastWriterWins ==
    [][\A i \in Slots :
           (requests[i].pc # "idle" /\ requests'[i].pc = "idle")
               => LET r == requests[i]
                      own == heap[r.history] \o <<AssistantTurn(out'.response)>>
                      k == IF Len(own) <= HistoryCap THEN Len(own) ELSE HistoryCap
                  IN  /\ out'.status = 200
                      /\ Len(StoredAfter(r.sessionId)) = k
                      /\ \A j \in 1..k : StoredAfter(r.sessionId)[j] = own[Len(own) - k + j]
      ]_vars

\* C9's case, the lost update: two requests of one session overlapped, both were
\* answered 200, fewer than HistoryCap turns were pushed for the session, and the
\* stored history holds neither turn of one of them.
C9_Witness ==
    /\ NoneSuspended
    /\ out.status = 200
    /\ out.calls = 1
    /\ overlapped["default"]
    /\ Len(transcript["default"]) = 4
    /\ Len(Stored("default")) = 2
    /\ Cardinality(Missing(transcript["default"], Stored("default"))) = 2
    /\ transcript["default"][1] # transcript["default"][2]

\* A reply the handler can give to message: the output of its first matching rule,
\* or a fallback reply or a trimmed completion when no rule matches.
IsReplyTo(message, reply) ==
    IF RuleBranch(message) # 0
    THEN reply \in RuleOutputs(RuleBranch(message), message)
    ELSE \/ reply \in FallbackReplies(message)
         \/ \E o \in Outcomes : o.kind = "content" /\ reply = Trim(o.content)

\* h is a sequence of pairs: a user turn, then the assistant turn that answers it.
IsPairs(h) ==
    /\ Len(h) % 2 = 0
    /\ \A k \in 1..Len(h) :
           IF k % 2 = 1
           THEN h[k].role = "user"
           ELSE /\ h[k].role = "assistant"
                /\ h[k - 1].role = "user"
                /\ IsReplyTo(h[k - 1].content, h[k].content)

\* C11: whenever no chat request is suspended, the stored history of every session
\* is a sequence of pairs, a user turn followed by the assistant turn that replies
\* to it.
C11_StoredIsPairs ==
    NoneSuspended => \A sid \in SessionIds : IsPairs(Stored(sid))

Min(a, b) == IF a <= b THEN a ELSE b

\* C12: the messages of every Groq call are the system message, then a system
\* message with the retrieved context exactly when retrieval returned a result,
\* then the last min(n, PromptWindow) turns of the n-turn array the request pushed
\* its user turn on; the last message is that user turn.
C12_PromptShape ==
    out.endpoint = "groq"
        => LET m == out.messages
               first == IF Len(out.ragContexts) > 0 THEN 3 ELSE 2
           IN  /\ Len(m) >= first
               /\ m[1] = [role |-> "system", content |-> SYSTEM_MESSAGE]
               /\ Len(out.ragContexts) > 0
                      => /\ m[2].role = "system"
                         /\ m[2].content = <<"Relevant info: ">> \o out.ragContexts[1]
               /\ \A k \in first..Len(m) : m[k].role \in {"user", "assistant"}
               /\ Len(m) - first + 1 <= PromptWindow
               /\ m[Len(m)] = UserTurn(out.body.text)
               /\ \E i \in Slots :
                      /\ requests[i].pc = "fetch"
                      /\ requests[i].settled = Pending
                      /\ requests[i].sessionId = out.sessionId
                      /\ requests[i].message = out.body.text
                      /\ LET a == heap[requests[i].history]
                             n == Min(Len(a), PromptWindow)
                         IN  /\ Len(m) - first + 1 = n
                             /\ \A k \in 1..n : m[first - 1 + k] = a[Len(a) - n + k]

\* C12's case: a call with a retrieved context and PromptWindow turns, issued while
\* another request of the session awaits the provider, whose user turn is the turn
\* before the last.
C12_Witness ==
    /\ out.endpoint = "groq"
    /\ Len(out.ragContexts) = 1
    /\ Len(out.messages) = PromptWindow + 2
    /\ Cardinality({i \in Slots : requests[i].pc # "idle"
                                  /\ requests[i].sessionId = out.sessionId}) = 2
    /\ out.messages[PromptWindow + 1].role = "user"
    /\ out.messages[PromptWindow + 2].role = "user"
    /\ Len(Stored(out.sessionId)) = PromptWindow

\* C12's other case: the array has more turns than the window, and the call
\* carries its last PromptWindow.
C12_WitnessTruncated ==
    /\ out.endpoint = "groq"
    /\ Len(out.messages) = PromptWindow + 2
    /\ Len(Stored(out.sessionId)) = PromptWindow + 1
    /\ out.messages[3] = AssistantTurn(<<"p", "o", "n", "g">>)

\* C12's other case: a call without a retrieved context.
C12_WitnessNoContext ==
    /\ out.endpoint = "groq"
    /\ out.ragContexts = <<>>
    /\ Len(out.messages) = 2
    /\ out.messages[2].role = "user"

\* C13: a Groq call is issued only by the step that receives a chat request, for
\* that request, when a key is set, the message is not blank and no rule matches
\* it; no later step of the request issues one, whatever the provider did, so a
\* request makes at most one call, and none when it is answered 400, by a rule or
\* without a key.
C13_NoRetry ==
    [][/\ out'.endpoint = "groq"
           => /\ received' = received + 1
              /\ GROQ_API_KEY
              /\ ~BlankBody(out'.body)
              /\ MatchingRules(out'.body.text) = {}
              /\ \E i \in Slots : /\ requests[i].pc = "idle"
                                  /\ requests'[i].pc = "fetch"
                                  /\ requests'[i].message = out'.body.text
       /\ \A i \in Slots :
              /\ requests'[i].calls <= 1
              /\ (requests[i].pc # "idle" /\ requests'[i] # requests[i])
                     => \/ out'.endpoint = "none"
                        \/ out'.endpoint = "chat" /\ out'.calls = 1
       /\ out'.endpoint = "chat"
           => /\ out'.calls <= 1
              /\ (\/ out'.status = 400
                  \/ ~GROQ_API_KEY
                  \/ out'.body.kind = "string" /\ MatchingRules(out'.body.text) # {})
                     => out'.calls = 0
      ]_vars

\* C13's case: a request whose only Groq call failed is answered with a fallback
\* reply after both sessions' requests were received.
C13_Witness ==
    /\ GROQ_API_KEY
    /\ out.endpoint = "chat"
    /\ out.fallback
    /\ out.calls = 1
    /\ out.response = HelloFallback
    /\ received = MaxRequests

\* Entry j comes before entry i in descending order of measure, insertion order
\* deciding between equal measures.
Before(measures, j, i) ==
    \/ measures[j] > measures[i]
    \/ measures[j] = measures[i] /\ j < i

\* The entries among the topK first in that order whose measure is positive.
Selected(measures, topK) ==
    {i \in 1..Len(measures) :
        /\ Cardinality({j \in 1..Len(measures) : Before(measures, j, i)}) < topK
        /\ measures[i] > 0}

\* C14: retrieveRelevantContext returns the answers of the entries that are among
\* the topK first in descending order of measure (insertion order between equal
\* measures) and have a positive measure, in that order: at most topK answers, none
\* when no measure is positive and none when the knowledge base is empty.
C14_RetrieveTopPositive ==
    out.endpoint = "retrieve"
        => LET sel == Selected(out.measures, out.topK)
               r == out.ragContexts
           IN  /\ Len(r) = Cardinality(sel)
               /\ \A i \in sel :
                      r[Cardinality({j \in sel : Before(out.measures, j, i)}) + 1]
                          = knowledgeBase[i].answer
               /\ Len(r) <= out.topK
               /\ (\A i \in 1..Len(out.measures) : out.measures[i] = 0) => r = <<>>
               /\ knowledgeBase = <<>> => r = <<>>

\* C14's case: three entries, the last two with equal positive measures and the
\* first with none; a topK of three keeps two, the earlier entry first.
C14_Witness ==
    /\ out.endpoint = "retrieve"
    /\ out.measures = <<0, 1, 1>>
    /\ out.topK = 3
    /\ out.ragContexts = <<Answers[2], Answers[3]>>

\* C14's other case: the entry with the highest measure is the one of topK = 1.
C14_WitnessTopOne ==
    /\ out.endpoint = "retrieve"
    /\ out.measures = <<1, 2, 2>>
    /\ out.topK = 1
    /\ out.ragContexts = <<Answers[2]>>

\* s[i..e] and s[q..f] are digits, with one "/" and otherwise whitespace between
\* them, and s[q..f] is not followed by a digit.
DivisionAt(s, i, e, q, f) ==
    /\ AllDigits(s, i, e)
    /\ q > e + 1
    /\ \E p \in (e + 1)..(q - 1) :
           /\ s[p] = "/"
           /\ \A k \in (e + 1)..(q - 1) : k # p => IsSpace(s[k])
    /\ AllDigits(s, q, f)
    /\ f = Len(s) \/ ~IsDigit(s[f + 1])

DivisionFrom(s, i) ==
    \E e \in i..Len(s) : \E q \in (e + 2)..Len(s) : \E f \in q..Len(s) :
        DivisionAt(s, i, e, q, f)

\* The dividend and the divisor of the first division pair of s, as written.
FirstDivision(s) ==
    LET i == CHOOSE k \in 1..Len(s) :
                 DivisionFrom(s, k) /\ \A j \in 1..(k - 1) : ~DivisionFrom(s, j)
        e == CHOOSE k \in i..Len(s) : \E q \in (k + 2)..Len(s) : \E f \in q..Len(s) :
                 DivisionAt(s, i, k, q, f)
        q == CHOOSE k \in (e + 2)..Len(s) : \E f \in k..Len(s) : DivisionAt(s, i, e, k, f)
        f == CHOOSE k \in q..Len(s) : DivisionAt(s, i, e, q, k)
    IN  <<SubSeq(s, i, e), SubSeq(s, q, f)>>

\* The first rule that matches the accepted message is the division rule and the
\* divisor of its first division pair is zero.
DividesByZero ==
    /\ Accepted
    /\ MatchingRules(TheMessage) # {}
    /\ \A k \in MatchingRules(TheMessage) : k >= 7
    /\ 7 \in MatchingRules(TheMessage)
    /\ DecimalValue(FirstDivision(TheMessage)[2], 0) = 0

\* C15: a message whose first matching rule is the division rule and whose first
\* division pair a, b has b = 0 is answered 200 with "a / b = Infinity", or
\* "a / b = NaN" when a = 0 too (with the division sign for the slash), by the
\* rule: no Groq call, no fallback reply, and its user and assistant turns are
\* the stored history.
C15_DivisionByZeroAnswered ==
    DividesByZero
        => LET a == FirstDivision(TheMessage)[1]
               b == FirstDivision(TheMessage)[2]
               result == IF DecimalValue(a, 0) = 0
                         THEN <<"N", "a", "N">>
                         ELSE <<"I", "n", "f", "i", "n", "i", "t", "y">>
           IN  /\ Answered(out.response)
               /\ out.response = a \o <<" ", "U+00F7", " ">> \o b \o <<" ", "=", " ">> \o result
               /\ out.branch = 7
               /\ out.calls = 0
               /\ ~out.fallback

\* C15's case: with an API key, "what is 10 / 00" is answered Infinity.
C15_Witness ==
    /\ GROQ_API_KEY
    /\ DividesByZero
    /\ FirstDivision(TheMessage) = <<<<"1", "0">>, <<"0", "0">>>>
    /\ out.status = 200
    /\ Len(Stored("default")) = 2

\* C15's other case: 00/0 is answered NaN.
C15_WitnessNaN ==
    /\ DividesByZero
    /\ FirstDivision(TheMessage) = <<<<"0", "0">>, <<"0">>>>
    /\ out.status = 200
    /\ Stored("default")[2].content
           = <<"0", "0", " ", "U+00F7", " ", "0", " ", "=", " ", "N", "a", "N">>

\* The request with this message is answered without the provider.
IsDirect(message) == ~GROQ_API_KEY \/ MatchingRules(message) # {}

\* C16: a request that is answered without the provider is never suspended, and
\* as long as every request of a session was such a request the stored history of
\* the session is the last HistoryCap turns of its transcript: the user turn and
\* the assistant turn of each request, in the order the requests arrived.
C16_DirectRequestsKeepAll ==
    \A sid \in SessionIds :
        (\A k \in 1..Len(transcript[sid]) :
             transcript[sid][k].role = "user" => IsDirect(transcript[sid][k].content))
            => LET t == transcript[sid]
                   n == Min(Len(t), HistoryCap)
               IN  /\ \A i \in Slots : requests[i].sessionId # sid
                   /\ Len(t) % 2 = 0
                   /\ \A k \in 1..Len(t) :
                          t[k].role = (IF k % 2 = 1 THEN "user" ELSE "assistant")
                   /\ Len(Stored(sid)) = n
                   /\ \A k \in 1..n : Stored(sid)[k] = t[Len(t) - n + k]
                   /\ (sid = out.sessionId /\ out.endpoint = "chat")
                          => /\ out.status = 200
                             /\ out.calls = 0
                             /\ t[Len(t)] = AssistantTurn(out.response)

\* C16's case: with a key, more than HistoryCap turns of rule-answered requests of
\* two kinds were pushed, and the stored history is the last HistoryCap of them.
C16_Witness ==
    /\ GROQ_API_KEY
    /\ Len(transcript["default"]) = HistoryCap + 2
    /\ transcript["default"][1] = UserTurn(Thanks)
    /\ Stored("default")[1] = UserTurn(OnePlusTwo)
    /\ Stored("default")[HistoryCap - 1] = UserTurn(Thanks)
    /\ Len(Stored("default")) = HistoryCap

\* C16's other case: without a key, fallback replies among the last HistoryCap.
C16_WitnessNoKey ==
    /\ ~GROQ_API_KEY
    /\ Len(transcript["default"]) = HistoryCap + 2
    /\ Stored("default")[HistoryCap] = AssistantTurn(HelloFallback)
    /\ Stored("default")[2] = AssistantTurn(<<"1", " ", "+", " ", "2", " ", "=", " ", "3">>)

\* The sessions whose stored history, or whose having an entry, the step changes.
ChangedSessions ==
    {sid \in SessionIds :
        \/ StoredAfter(sid) # Stored(sid)
        \/ (conversationHistory'[sid] = 0) # (conversationHistory[sid] = 0)}

\* The session of the chat request the step belongs to: the one it receives, or
\* the suspended one it continues.
ActingSessions ==
    IF received' # received
    THEN {out'.sessionId}
    ELSE {requests[i].sessionId : i \in {j \in Slots : requests'[j] # requests[j]}}

\* C17: a step of a chat request changes the stored history of no session but the
\* request's own and creates no entry for another; a step of the history, health
\* or key-check endpoint changes no stored history and creates no entry.
C17_SessionIsolation ==
    [][/\ ChangedSessions \subseteq ActingSessions
       /\ out'.endpoint \in {"history", "health", "check-api-key"}
              => /\ ChangedSessions = {}
                 /\ conversationHistory' = conversationHistory
                 /\ heap' = heap
       /\ (received' # received /\ out'.endpoint \in {"chat", "groq"} /\ out'.status # 400
              /\ out'.status # 500)
              => out'.sessionId \in SessionIds
      ]_vars

\* C17's case: a request of session s1 has ended and stored its two turns while a
\* request of the default session awaits the provider; the default session has no
\* entry.
C17_Witness ==
    /\ out.endpoint = "chat"
    /\ out.status = 200
    /\ out.sessionId = "s1"
    /\ out.calls = 1
    /\ \E i \in Slots : requests[i].pc # "idle" /\ requests[i].sessionId = "default"
    /\ Len(Stored("s1")) = 2
    /\ conversationHistory["default"] = 0

\* C17's other case: the key check answers while both sessions hold turns.
C17_WitnessKeyCheck ==
    /\ out.endpoint = "check-api-key"
    /\ out.valid
    /\ Len(Stored("s1")) = 2
    /\ Len(Stored("default")) = 2
    /\ Stored("s1") # Stored("default")

\* C18: every chat request answered 200 is answered with a response that is not
\* the empty string, and the last turn of the session's stored history is then the
\* assistant turn with that response.
C18_ReplyNonEmpty ==
    (out.endpoint = "chat" /\ out.status = 200)
        => /\ out.response # <<>>
           /\ \E k \in 1..Len(out.response) : out.response[k] # ""
           /\ LET h == Stored(out.sessionId)
              IN  /\ h # <<>>
                  /\ h[Len(h)] = AssistantTurn(out.response)

====
